---- MODULE Spec2Model ----
(***************************************************************************)
(* Model of src/btsnoop_parser.py: BtsnoopParser.parse and the decoders it *)
(* calls.  A capture file is a sequence of bytes (0..255).  One step of    *)
(* the model is the header check or one iteration of the record loop,      *)
(* including the whole dispatch of the record it reads.                    *)
(*                                                                         *)
(* Python raises IndexError on an index at or beyond the end of a bytes    *)
(* object and struct.error when unpack is given a buffer of the wrong      *)
(* size; slices clamp.  The model keeps those three behaviours apart:      *)
(* Slice clamps, every direct index and every unpack is checked by         *)
(* CanIndex / CanUnpack and a failed check ends parse with that error.     *)
(*                                                                         *)
(* Ghost state (not in the program): the field rec of packets and events   *)
(* (index in self.packets of the originating record) and the variable      *)
(* rawts (the 8 timestamp bytes of each record in self.packets).           *)
(***************************************************************************)
EXTENDS Integers, Sequences, FiniteSets, TLC

VARIABLES file, pos, pc, error, warnings, packets, rawts,
          connections, disconnections, advertisements, gatt_operations

vars == <<file, pos, pc, error, warnings, packets, rawts,
          connections, disconnections, advertisements, gatt_operations>>

store == <<connections, disconnections, advertisements, gatt_operations>>

-----------------------------------------------------------------------------
(* Program constants                                                       *)

BTSNOOP_MAGIC == <<98, 116, 115, 110, 111, 111, 112, 0>>   \* b'btsnoop\x00'
BTSNOOP_VERSION == 1
DATALINK_HCI == 1002

HCI_COMMAND == 1
HCI_ACL_DATA == 2
HCI_SCO_DATA == 3
HCI_EVENT == 4

EVT_CONNECTION_COMPLETE == 3
EVT_CONNECTION_REQUEST == 4
EVT_DISCONNECTION_COMPLETE == 5
EVT_LE_META == 62                       \* 0x3E

LE_CONNECTION_COMPLETE == 1
LE_ADV_REPORT == 2
LE_ENHANCED_CONNECTION_COMPLETE == 10   \* 0x0A

CMD_CREATE_CONNECTION == 1029           \* 0x0405
CMD_DISCONNECT == 1030                  \* 0x0406
CMD_LE_CREATE_CONNECTION == 8205        \* 0x200D

ATT_READ_REQ == 10                      \* 0x0A
ATT_WRITE_REQ == 18                     \* 0x12
ATT_WRITE_CMD == 82                     \* 0x52
ATT_PREPARE_WRITE_REQ == 22             \* 0x16

L2CAP_CID_ATT == 4

DISCONNECT_REASONS ==
  (0 :> "Success") @@ (5 :> "Authentication Failure") @@
  (6 :> "PIN or Key Missing") @@ (7 :> "Memory Capacity Exceeded") @@
  (8 :> "Connection Timeout") @@ (9 :> "Connection Limit Exceeded") @@
  (12 :> "Command Disallowed") @@
  (19 :> "Remote User Terminated Connection") @@
  (20 :> "Remote Device Terminated due to Low Resources") @@
  (21 :> "Remote Device Terminated due to Power Off") @@
  (22 :> "Connection Terminated by Local Host") @@
  (26 :> "Unsupported Remote Feature") @@
  (34 :> "LMP Response Timeout") @@
  (62 :> "Connection Failed to be Established")

ADDR_TYPES ==
  (0 :> "Public") @@ (1 :> "Random") @@
  (2 :> "Public Identity") @@ (3 :> "Random Identity")

ATT_OPCODES ==
  (10 :> "Read Request") @@ (11 :> "Read Response") @@
  (8 :> "Read By Type Request") @@ (9 :> "Read By Type Response") @@
  (16 :> "Read By Group Type Request") @@
  (17 :> "Read By Group Type Response") @@
  (18 :> "Write Request") @@ (19 :> "Write Response") @@
  (82 :> "Write Command") @@
  (22 :> "Prepare Write Request") @@ (23 :> "Prepare Write Response") @@
  (24 :> "Execute Write Request") @@ (25 :> "Execute Write Response")

\* datetime.max - BTSNOOP_EPOCH in microseconds, 315537897599999999, as the
\* 8 big-endian bytes of the record's timestamp field: the largest field for
\* which BTSNOOP_EPOCH + timedelta(microseconds=ts) does not overflow.
MAX_TS == <<4, 97, 4, 11, 203, 159, 31, 255>>

-----------------------------------------------------------------------------
(* Bytes                                                                   *)

Min(a, b) == IF a < b THEN a ELSE b

\* buf[a:b] for 0 <= a <= b: Python slices clamp to the buffer
Slice(buf, a, b) == SubSeq(buf, a + 1, Min(b, Len(buf)))

\* buf[i], 0-based; only defined where CanIndex holds
Idx(buf, i) == buf[i + 1]

\* buf[i] for each i of idxs raises IndexError unless i < len(buf)
CanIndex(buf, idxs) == \A i \in idxs : i < Len(buf)

\* struct.unpack('<H', s) raises struct.error unless len(s) = 2
CanUnpack(s, n) == Len(s) = n

\* struct.unpack('<H', s)[0]
LE16(s) == s[1] + 256 * s[2]

\* one '>I' field of struct.unpack.  Integers of the checker end at
\* 2^31 - 1: a field of 2^31 or more is read as 2^31 - 1, which like the
\* field is above every length and differs from every constant the code
\* compares it with
BE32(s) ==
  IF s[1] >= 128 THEN 2147483647
  ELSE ((s[1] * 256 + s[2]) * 256 + s[3]) * 256 + s[4]

HexDigits == <<"0", "1", "2", "3", "4", "5", "6", "7",
               "8", "9", "A", "B", "C", "D", "E", "F">>

\* f'{b:02X}' for a byte b
Hex02X(b) == HexDigits[(b \div 16) + 1] \o HexDigits[(b % 16) + 1]

\* ':'.join(f'{b:02X}' for b in reversed(s)) for a 6-byte slice s;
\* a shorter slice joins fewer groups
RECURSIVE JoinReversed(_)
JoinReversed(s) ==
  IF s = <<>> THEN ""
  ELSE IF Len(s) = 1 THEN Hex02X(s[1])
  ELSE Hex02X(s[Len(s)]) \o ":" \o JoinReversed(SubSeq(s, 1, Len(s) - 1))

\* the 8-byte big-endian field a is numerically <= b
RECURSIVE BytesLeq(_, _)
BytesLeq(a, b) ==
  IF a = <<>> THEN TRUE
  ELSE IF Head(a) # Head(b) THEN Head(a) < Head(b)
  ELSE BytesLeq(Tail(a), Tail(b))

-----------------------------------------------------------------------------
(* Results of a decoder: the events it appends, in order, and the error it *)
(* raises ("none" when it returns normally)                                *)

Out(c, d, a, g, e) == [conn |-> c, disc |-> d, adv |-> a, gatt |-> g, err |-> e]
NoOut == Out(<<>>, <<>>, <<>>, <<>>, "none")
Raise(e) == Out(<<>>, <<>>, <<>>, <<>>, e)

ConnectionRequest(pkt, bd_addr, link_type, event_type) ==
  [timestamp |-> pkt.timestamp, direction |-> pkt.direction,
   bd_addr |-> bd_addr, link_type |-> link_type, event_type |-> event_type,
   rec |-> pkt.rec]

DisconnectionEvent(pkt, handle, reason, reason_str) ==
  [timestamp |-> pkt.timestamp, handle |-> handle, reason |-> reason,
   reason_str |-> reason_str, rec |-> pkt.rec]

\* rssi_at (ghost): the offset in params the RSSI byte was looked for at
AdvertisementPacket(pkt, event_type, addr_type, bd_addr, rssi, data, rssi_at) ==
  [timestamp |-> pkt.timestamp, event_type |-> event_type,
   addr_type |-> addr_type, bd_addr |-> bd_addr, rssi |-> rssi,
   data |-> data, rec |-> pkt.rec, rssi_at |-> rssi_at]

\* handle is <<>> for None, <<h>> for a handle h
GattOperation(pkt, operation, handle, data) ==
  [timestamp |-> pkt.timestamp, direction |-> pkt.direction,
   operation |-> operation, handle |-> handle, data |-> data,
   rec |-> pkt.rec]

\* fault variant: the top 4 bits are kept
MaskHandle_NoMask(s) == LE16(s)

\* struct.unpack('<H', s)[0] & 0x0FFF
MaskHandle(s) == LE16(s) % 4096

\* fault variant: no space before the parenthesis
ReasonStr_NoSpace(reason) ==
  IF reason \in DOMAIN DISCONNECT_REASONS THEN DISCONNECT_REASONS[reason]
  ELSE "Unknown(0x" \o Hex02X(reason) \o ")"

\* self.DISCONNECT_REASONS.get(reason, f"Unknown (0x{reason:02X})")
ReasonStr(reason) ==
  IF reason \in DOMAIN DISCONNECT_REASONS THEN DISCONNECT_REASONS[reason]
  ELSE "Unknown (0x" \o Hex02X(reason) \o ")"

\* self.ADDR_TYPES.get(t, f"Unknown({t})"); the decimal rendering of t is
\* kept as the number
AddrTypeStr(t) ==
  IF t \in DOMAIN ADDR_TYPES THEN <<ADDR_TYPES[t]>> ELSE <<"Unknown(", t, ")">>

\* 'SCO' if params[9] == 0x00 else 'ACL'
LinkType(b) == IF b = 0 THEN "SCO" ELSE "ACL"

\* fault variant: the byte is kept unsigned
SignedByte_Unsigned(b) == b

\* rssi = params[offset] ...; if rssi > 127: rssi -= 256
SignedByte(b) == IF b > 127 THEN b - 256 ELSE b

-----------------------------------------------------------------------------
(* _process_le_meta_event                                                  *)

\* f'0x{handle:04X}' without the prefix
Hex04X(h) == Hex02X(h \div 256) \o Hex02X(h % 256)

\* "Master" if params[4] == 0 else "Slave"
Role(b) == IF b = 0 THEN "Master" ELSE "Slave"

\* the event of the two LE connection-complete branches; name is
\* 'LE' / 'LE Enhanced' and tag the event_type prefix
LEConnectionEvent(pkt, params, name, tag) ==
  IF ~CanIndex(params, {1, 4, 5}) THEN Raise("IndexError")
  ELSE IF ~CanUnpack(Slice(params, 2, 4), 2) THEN Raise("struct.error")
  ELSE LET status == Idx(params, 1)
           handle == MaskHandle(Slice(params, 2, 4))
           role == Role(Idx(params, 4))
           addr_type == AddrTypeStr(Idx(params, 5))
           bd_addr == JoinReversed(Slice(params, 6, 12))
       IN Out(<<ConnectionRequest(pkt, bd_addr,
                   <<name, " (", role, ", ">> \o addr_type \o <<")">>,
                   <<tag, " (status=", status, ", handle=0x",
                     Hex04X(handle), ")">>)>>,
              <<>>, <<>>, <<>>, "none")

\* fault variant: only the first byte of the prefix is checked
AdvPrefixShort_OneByte(params, offset) == offset + 1 > Len(params)

\* line 326: if offset + 9 > len(params): break
AdvPrefixShort(params, offset) == offset + 9 > Len(params)

\* fault variant: the RSSI byte is required to fit as well
AdvDataShort_WithRssi(params, offset, data_len) ==
  offset + data_len + 1 > Len(params)

\* line 335: if offset + data_len > len(params): break
AdvDataShort(params, offset, data_len) == offset + data_len > Len(params)

\* the for loop of the LE_ADV_REPORT branch: remaining iterations of
\* range(num_reports), the running offset, and the reports appended so far
RECURSIVE AdvWalk(_, _, _, _, _)
AdvWalk(pkt, params, remaining, offset, acc) ==
  IF remaining = 0 THEN Out(<<>>, <<>>, acc, <<>>, "none")
  ELSE IF AdvPrefixShort(params, offset)
  THEN Out(<<>>, <<>>, acc, <<>>, "none")
  ELSE IF ~CanIndex(params, {offset, offset + 1, offset + 8})
  THEN Out(<<>>, <<>>, acc, <<>>, "IndexError")
  ELSE
    LET event_type == Idx(params, offset)
        addr_type == Idx(params, offset + 1)
        bd_addr == JoinReversed(Slice(params, offset + 2, offset + 8))
        data_len == Idx(params, offset + 8)
        off2 == offset + 9
    IN IF AdvDataShort(params, off2, data_len)
       THEN Out(<<>>, <<>>, acc, <<>>, "none")
       ELSE
         LET adv_data == Slice(params, off2, off2 + data_len)
             off3 == off2 + data_len
             rssi == SignedByte(IF off3 < Len(params)
                                THEN Idx(params, off3) ELSE 0)
         IN AdvWalk(pkt, params, remaining - 1, off3 + 1,
                    Append(acc, AdvertisementPacket(pkt, event_type,
                                  AddrTypeStr(addr_type), bd_addr, rssi,
                                  adv_data, off3)))

process_le_meta_event(pkt, params) ==
  IF Len(params) < 1 THEN NoOut
  ELSE
    LET subevent == Idx(params, 0)
    IN CASE subevent = LE_CONNECTION_COMPLETE ->
              IF Len(params) >= 19
              THEN LEConnectionEvent(pkt, params, "LE", "le_connection_complete")
              ELSE NoOut
         [] subevent = LE_ENHANCED_CONNECTION_COMPLETE ->
              IF Len(params) >= 31
              THEN LEConnectionEvent(pkt, params, "LE Enhanced",
                                     "le_enhanced_connection_complete")
              ELSE NoOut
         [] subevent = LE_ADV_REPORT ->
              IF Len(params) < 2 THEN NoOut
              ELSE AdvWalk(pkt, params, Idx(params, 1), 2, <<>>)
         [] OTHER -> NoOut

-----------------------------------------------------------------------------
(* _process_hci_event                                                      *)

\* fault variant: the declared parameter length is ignored
EventParams_All(data, param_len) == Slice(data, 2, Len(data))

\* line 237: params = pkt.data[2:2+param_len]
EventParams(data, param_len) == Slice(data, 2, 2 + param_len)

process_hci_event(pkt) ==
  IF Len(pkt.data) < 2 THEN NoOut
  ELSE
    LET event_code == Idx(pkt.data, 0)
        param_len == Idx(pkt.data, 1)
        params == EventParams(pkt.data, param_len)
    IN CASE event_code = EVT_CONNECTION_REQUEST ->
              IF Len(params) >= 10
              THEN IF ~CanIndex(params, {9}) THEN Raise("IndexError")
                   ELSE Out(<<ConnectionRequest(pkt,
                                JoinReversed(Slice(params, 0, 6)),
                                <<LinkType(Idx(params, 9))>>,
                                <<"request">>)>>,
                            <<>>, <<>>, <<>>, "none")
              ELSE NoOut
         [] event_code = EVT_CONNECTION_COMPLETE ->
              IF Len(params) >= 11
              THEN IF ~CanIndex(params, {0, 9}) THEN Raise("IndexError")
                   ELSE Out(<<ConnectionRequest(pkt,
                                JoinReversed(Slice(params, 3, 9)),
                                <<LinkType(Idx(params, 9))>>,
                                <<"complete (status=", Idx(params, 0), ")">>)>>,
                            <<>>, <<>>, <<>>, "none")
              ELSE NoOut
         [] event_code = EVT_DISCONNECTION_COMPLETE ->
              IF Len(params) >= 4
              THEN IF ~CanIndex(params, {0, 3}) THEN Raise("IndexError")
                   ELSE IF ~CanUnpack(Slice(params, 1, 3), 2)
                   THEN Raise("struct.error")
                   ELSE LET handle == MaskHandle(Slice(params, 1, 3))
                            reason == Idx(params, 3)
                        IN Out(<<>>,
                               <<DisconnectionEvent(pkt, handle, reason,
                                                    ReasonStr(reason))>>,
                               <<>>, <<>>, "none")
              ELSE NoOut
         [] event_code = EVT_LE_META -> process_le_meta_event(pkt, params)
         [] OTHER -> NoOut

-----------------------------------------------------------------------------
(* _process_hci_command                                                    *)

process_hci_command(pkt) ==
  IF Len(pkt.data) < 3 THEN NoOut
  ELSE
    LET opcode == LE16(Slice(pkt.data, 0, 2))
        param_len == Idx(pkt.data, 2)
        params == Slice(pkt.data, 3, 3 + param_len)
    IN CASE opcode = CMD_CREATE_CONNECTION ->
              IF Len(params) >= 6
              THEN Out(<<ConnectionRequest(pkt,
                            JoinReversed(Slice(params, 0, 6)),
                            <<"ACL">>, <<"create_connection_cmd">>)>>,
                       <<>>, <<>>, <<>>, "none")
              ELSE NoOut
         [] opcode = CMD_LE_CREATE_CONNECTION ->
              IF Len(params) >= 8
              THEN Out(<<ConnectionRequest(pkt,
                            JoinReversed(Slice(params, 2, 8)),
                            <<"LE">>, <<"le_create_connection_cmd">>)>>,
                       <<>>, <<>>, <<>>, "none")
              ELSE NoOut
         [] opcode = CMD_DISCONNECT ->
              IF Len(params) >= 3
              THEN IF ~CanIndex(params, {2}) THEN Raise("IndexError")
                   ELSE IF ~CanUnpack(Slice(params, 0, 2), 2)
                   THEN Raise("struct.error")
                   ELSE LET handle == MaskHandle(Slice(params, 0, 2))
                            reason == Idx(params, 2)
                        IN Out(<<>>,
                               <<DisconnectionEvent(pkt, handle, reason,
                                    "Disconnect Command: " \o ReasonStr(reason))>>,
                               <<>>, <<>>, "none")
              ELSE NoOut
         [] OTHER -> NoOut

-----------------------------------------------------------------------------
(* _process_acl_data, _process_att                                         *)

\* fault variant: the opcode is not looked up before the event is made
process_att_AnyOpcode(pkt, att_data) ==
  IF Len(att_data) < 1 THEN NoOut
  ELSE Out(<<>>, <<>>, <<>>,
           <<GattOperation(pkt,
                IF Idx(att_data, 0) \in DOMAIN ATT_OPCODES
                THEN ATT_OPCODES[Idx(att_data, 0)] ELSE "",
                <<>>, Slice(att_data, 1, Len(att_data)))>>,
           "none")

process_att(pkt, att_data) ==
  IF Len(att_data) < 1 THEN NoOut
  ELSE
    LET opcode == Idx(att_data, 0)
    IN IF opcode \in DOMAIN ATT_OPCODES
       THEN LET carries == opcode \in {ATT_READ_REQ, ATT_WRITE_REQ,
                                       ATT_WRITE_CMD, ATT_PREPARE_WRITE_REQ}
                           /\ Len(att_data) >= 3
            IN IF carries /\ ~CanUnpack(Slice(att_data, 1, 3), 2)
               THEN Raise("struct.error")
               ELSE Out(<<>>, <<>>, <<>>,
                        <<GattOperation(pkt, ATT_OPCODES[opcode],
                             IF carries THEN <<LE16(Slice(att_data, 1, 3))>>
                                        ELSE <<>>,
                             Slice(att_data, 1, Len(att_data)))>>,
                        "none")
       ELSE NoOut

process_acl_data(pkt) ==
  IF Len(pkt.data) < 4 THEN NoOut
  ELSE IF ~CanUnpack(Slice(pkt.data, 2, 4), 2) THEN Raise("struct.error")
  ELSE
    LET acl_len == LE16(Slice(pkt.data, 2, 4))
        acl_data == Slice(pkt.data, 4, 4 + acl_len)
    IN IF Len(acl_data) < 4 THEN NoOut
       ELSE IF ~CanUnpack(Slice(acl_data, 0, 2), 2)
               \/ ~CanUnpack(Slice(acl_data, 2, 4), 2)
       THEN Raise("struct.error")
       ELSE
         LET l2cap_len == LE16(Slice(acl_data, 0, 2))
             cid == LE16(Slice(acl_data, 2, 4))
             l2cap_data == Slice(acl_data, 4, 4 + l2cap_len)
         IN IF cid = L2CAP_CID_ATT /\ Len(l2cap_data) > 0
            THEN process_att(pkt, l2cap_data)
            ELSE NoOut

-----------------------------------------------------------------------------
(* _process_packet                                                         *)

process_packet(pkt) ==
  CASE pkt.packet_type = HCI_EVENT -> process_hci_event(pkt)
    [] pkt.packet_type = HCI_COMMAND -> process_hci_command(pkt)
    [] pkt.packet_type = HCI_ACL_DATA -> process_acl_data(pkt)
    [] OTHER -> NoOut

-----------------------------------------------------------------------------
(* Capture files the model reads: a 16-byte header and up to MaxRecords    *)
(* chunks, each a record (or a truncated one) in the layout parse unpacks  *)
(* with '>IIIIQ'                                                           *)

MaxRecords == 2

\* a u32 below 65536 as struct.unpack('>I') reads it
U32(n) == <<0, 0, n \div 256, n % 256>>

TS_ZERO == <<0, 0, 0, 0, 0, 0, 0, 0>>
TS_ONE == <<0, 0, 0, 0, 0, 0, 0, 1>>
TS_OVER == <<4, 97, 4, 11, 203, 159, 32, 0>>          \* MAX_TS + 1
TS_TOP == <<255, 255, 255, 255, 255, 255, 255, 255>>  \* 2^64 - 1

\* original length, included length, flags, drops, timestamp, payload
Record(incl_len, flags, ts, payload) ==
  U32(Len(payload)) \o U32(incl_len) \o U32(flags) \o U32(0) \o ts \o payload

ADDR == <<1, 2, 3, 4, 5, 6>>

\* an event payload: tag, event code, declared parameter length, bytes
Event(code, param_len, bytes) == <<4, code, param_len>> \o bytes

\* one advertising sub-record
Report(event_type, addr_type, data_len, data, rssi) ==
  <<event_type, addr_type>> \o ADDR \o <<data_len>> \o data \o rssi

AdvTwo ==
  <<2, 2>> \o Report(0, 0, 1, <<170>>, <<255>>) \o Report(4, 1, 0, <<>>, <<64>>)

AdvBlocks ==
  { SubSeq(AdvTwo, 1, n) : n \in {1, 2, 10, 11, 12, 13, 14, 21, 22, 23} }
  \cup { <<2, 3>> \o Report(3, 7, 2, <<1, 2>>, <<128>>),
         <<2, 1>> \o Report(0, 1, 200, <<9>>, <<>>),
         <<2, 1>> \o Report(0, 1, 0, <<>>, <<127>>) \o <<1, 2, 3>>,
         <<2, 0>> \o Report(0, 1, 0, <<>>, <<127>>) }

ConnReqBlock == ADDR \o <<0, 0, 0, 1>>
ConnCompleteBlock == <<0, 7, 0>> \o ADDR \o <<0, 0>>
LEConnBlock == <<1, 0, 52, 18, 0, 1>> \o ADDR \o <<0, 0, 0, 0, 0, 0, 0>>
LEEnhBlock ==
  <<10, 0, 1, 240, 1, 5>> \o ADDR
  \o <<0, 0, 0, 0, 0, 0, 0, 0, 0, 0, 0, 0, 0, 0, 0, 0, 0, 0, 0>>

\* meta events: advertising reports cut at every boundary of the walk,
\* declared counts and lengths that lie, and the LE connection events
MetaPayloads ==
  { Event(EVT_LE_META, Len(b), b) : b \in AdvBlocks }
  \cup { Event(EVT_LE_META, 12, AdvTwo),
         Event(EVT_LE_META, 255, AdvTwo),
         Event(EVT_LE_META, 0, <<>>),
         Event(EVT_LE_META, 1, <<9>>),
         Event(EVT_LE_META, 19, LEConnBlock),
         Event(EVT_LE_META, 18, LEConnBlock),
         Event(EVT_LE_META, 31, LEEnhBlock),
         Event(EVT_LE_META, 31, SubSeq(LEEnhBlock, 1, 30)) }

\* connection and disconnection events and commands
LinkPayloads ==
  { Event(EVT_CONNECTION_REQUEST, 10, ConnReqBlock),
    Event(EVT_CONNECTION_REQUEST, 9, ConnReqBlock),
    Event(EVT_CONNECTION_REQUEST, 10, SubSeq(ConnReqBlock, 1, 9)),
    Event(EVT_CONNECTION_COMPLETE, 11, ConnCompleteBlock),
    Event(EVT_CONNECTION_COMPLETE, 10, ConnCompleteBlock),
    Event(EVT_CONNECTION_COMPLETE, 255, SubSeq(ConnCompleteBlock, 1, 10)),
    Event(EVT_DISCONNECTION_COMPLETE, 4, <<0, 52, 18, 19>>),
    Event(EVT_DISCONNECTION_COMPLETE, 4, <<0, 255, 255, 66>>),
    Event(EVT_DISCONNECTION_COMPLETE, 5, <<0, 0, 16, 10, 1>>),
    Event(EVT_DISCONNECTION_COMPLETE, 3, <<0, 52, 18, 19>>),
    Event(EVT_DISCONNECTION_COMPLETE, 4, <<0, 52, 18>>),
    Event(255, 0, <<>>),
    <<4, 5>>,
    <<1, 5, 4, 6>> \o ADDR,
    <<1, 5, 4, 5>> \o ADDR,
    <<1, 13, 32, 8, 0, 0>> \o ADDR,
    <<1, 6, 4, 3, 52, 18, 19>>,
    <<1, 6, 4, 3, 255, 143, 171>>,
    <<1, 6, 4, 2, 52, 18, 19>>,
    <<1, 3, 12, 0>>,
    <<1, 6>> }

\* an asynchronous-data payload: tag, handle, ACL length, L2CAP length,
\* channel id, attribute bytes
Acl(acl_len, l2cap_len, cid, att) ==
  <<2, 1, 0, acl_len, 0, l2cap_len, 0, cid, 0>> \o att

\* data packets, and payloads the dispatcher ignores
DataPayloads ==
  { Acl(8, 4, 4, <<18, 42, 0, 1>>),
    Acl(6, 2, 4, <<11, 5>>),
    Acl(6, 2, 4, <<10, 42>>),
    Acl(7, 3, 4, <<1, 0, 0>>),
    Acl(8, 4, 5, <<18, 42, 0, 1>>),
    Acl(8, 0, 4, <<18, 42, 0, 1>>),
    Acl(8, 1, 4, <<82, 42, 0, 1>>),
    Acl(200, 200, 4, <<82, 42, 0>>),
    Acl(3, 4, 4, <<18, 42, 0, 1>>),
    Acl(4, 4, 4, <<>>),
    Acl(6, 2, 4, <<25, 0>>),
    <<2, 1, 0, 8, 0, 4, 0, 4, 1, 18, 42, 0, 1>>,
    <<2, 1, 0, 8, 1, 4, 1, 4, 0, 18, 42, 0, 1>>,
    <<2, 1, 0>>,
    <<3, 1, 2>>,
    <<9, 1>>,
    <<>> }

DiscSeven == Event(EVT_DISCONNECTION_COMPLETE, 4, <<0, 7, 0, 19>>)

\* records of the same event with timestamps around the largest instant,
\* and records cut short or declaring another length than they hold
TimedChunks ==
  { Record(Len(DiscSeven), 1, ts, DiscSeven) :
      ts \in {TS_ZERO, TS_ONE, MAX_TS, TS_OVER, TS_TOP} }
  \cup { SubSeq(Record(4, 0, TS_ONE, <<4, 5, 0, 0>>), 1, n) : n \in {1, 23} }
  \cup { Record(8, 0, TS_ONE, DiscSeven),
         Record(6, 0, TS_ONE, DiscSeven),
         <<0, 0, 0, 7, 127, 255, 255, 255, 0, 0, 0, 0, 0, 0, 0, 0>>
           \o TS_ONE \o DiscSeven }

\* one record of each kind
MixedChunks ==
  { Record(Len(p), 0, TS_ONE, p) :
      p \in { Event(EVT_LE_META, Len(AdvTwo), AdvTwo),
              Event(EVT_CONNECTION_REQUEST, 10, ConnReqBlock),
              DiscSeven,
              <<1, 6, 4, 3, 52, 18, 19>>,
              Acl(8, 4, 4, <<18, 42, 0, 1>>) } }
  \cup { Record(Len(DiscSeven), 1, TS_ZERO, DiscSeven),
         Record(8, 0, TS_ONE, DiscSeven) }

\* the families of chunks a capture body is drawn from
ChunkFamilies ==
  { { Record(Len(p), 0, TS_ONE, p) : p \in MetaPayloads },
    { Record(Len(p), 0, TS_ONE, p) : p \in LinkPayloads },
    { Record(Len(p), 0, TS_ONE, p) : p \in DataPayloads },
    TimedChunks,
    MixedChunks }

\* bodies of at most n chunks
RECURSIVE Bodies(_, _)
Bodies(chunks, n) ==
  IF n = 0 THEN {<<>>}
  ELSE LET shorter == Bodies(chunks, n - 1)
       IN shorter \cup {b \o c : b \in shorter, c \in chunks}

GoodHeader == BTSNOOP_MAGIC \o U32(BTSNOOP_VERSION) \o U32(DATALINK_HCI)

OtherHeaders ==
  { BTSNOOP_MAGIC \o U32(2) \o U32(DATALINK_HCI),
    BTSNOOP_MAGIC \o U32(BTSNOOP_VERSION) \o U32(1001),
    BTSNOOP_MAGIC \o U32(0) \o <<127, 255, 255, 255>>,
    BTSNOOP_MAGIC \o <<255, 255, 255, 255>> \o U32(2),
    <<98, 116, 115, 110, 111, 111, 112, 1>> \o U32(BTSNOOP_VERSION)
      \o U32(DATALINK_HCI),
    <<66, 116, 115, 110, 111, 111, 112, 0>> \o U32(2) \o U32(DATALINK_HCI),
    SubSeq(GoodHeader, 1, 15),
    SubSeq(GoodHeader, 1, 7),
    <<>> }

HeaderChunks ==
  { Record(Len(DiscSeven), 0, TS_ONE, DiscSeven),
    Record(Len(DiscSeven), 1, TS_TOP, DiscSeven),
    Record(11, 1, TS_ZERO, <<1, 6, 4, 3, 52, 18, 19, 0, 0, 0, 0>>),
    SubSeq(Record(4, 0, TS_ONE, <<4, 5, 0, 0>>), 1, 23) }

Files ==
  UNION { { GoodHeader \o b : b \in Bodies(chunks, MaxRecords) } :
            chunks \in ChunkFamilies }
  \cup { h \o b : h \in OtherHeaders, b \in Bodies(HeaderChunks, MaxRecords) }

-----------------------------------------------------------------------------
(* parse                                                                   *)

\* f.read(n) with the file position at p: the next n bytes, fewer at the
\* end of the file
FileRead(f, p, n) == SubSeq(f, p + 1, p + Min(n, Len(f) - p))

\* fault variant: a version mismatch raises too
HeaderInvalid_Version(header) ==
  \/ Len(header) < 16
  \/ Slice(header, 0, 8) # BTSNOOP_MAGIC
  \/ BE32(Slice(header, 8, 12)) # BTSNOOP_VERSION

\* lines 174-179: the two checks that raise ValueError
HeaderInvalid(header) ==
  Len(header) < 16 \/ Slice(header, 0, 8) # BTSNOOP_MAGIC

\* lines 182-185: the warnings printed for the header
HeaderWarnings(version, datalink) ==
  (IF version # BTSNOOP_VERSION THEN <<<<"version", version>>>> ELSE <<>>)
  \o (IF datalink # DATALINK_HCI THEN <<<<"datalink", datalink>>>> ELSE <<>>)

\* line 190: if len(record_header) < 24: break
HeaderTruncated(record_header) == Len(record_header) < 24

\* fault variant: a short payload is not noticed
PayloadTruncated_Never(packet_data, incl_len) == FALSE

\* line 198: if len(packet_data) < incl_len: break
PayloadTruncated(packet_data, incl_len) == Len(packet_data) < incl_len

\* the instants datetime.now() may return
NowValues == {1, 2}

\* fault variant: the largest representable instant is taken to overflow
TimestampOf_Strict(ts) ==
  IF ts # MAX_TS /\ BytesLeq(ts, MAX_TS)
  THEN {[base |-> "BTSNOOP_EPOCH", us |-> ts]}
  ELSE {[base |-> "now", us |-> <<n>>] : n \in NowValues}

\* lines 202-205: BTSNOOP_EPOCH + timedelta(microseconds=ts) is the instant
\* ts microseconds after the epoch; it raises OverflowError when that is
\* after datetime.max, and the bare except then takes datetime.now()
TimestampOf(ts) ==
  IF BytesLeq(ts, MAX_TS)
  THEN {[base |-> "BTSNOOP_EPOCH", us |-> ts]}
  ELSE {[base |-> "now", us |-> <<n>>] : n \in NowValues}

\* line 208: 'received' if (flags & 0x01) else 'sent', on the 4 bytes of
\* the flags field
Direction(flags) == IF flags[4] % 2 = 1 THEN "received" ELSE "sent"

\* fault variant: list.insert(0, ev)
StoreAppend_Front(list, ev) == <<ev>> \o list

\* list.append(ev)
StoreAppend(list, ev) == Append(list, ev)

\* the appends one record makes to one collection, in order
RECURSIVE AppendAll(_, _)
AppendAll(list, evs) ==
  IF evs = <<>> THEN list
  ELSE AppendAll(StoreAppend(list, Head(evs)), Tail(evs))

Init ==
  /\ file \in Files
  /\ pos = 0
  /\ pc = "header"
  /\ error = "none"
  /\ warnings = <<>>
  /\ packets = <<>>
  /\ rawts = <<>>
  /\ connections = <<>>
  /\ disconnections = <<>>
  /\ advertisements = <<>>
  /\ gatt_operations = <<>>

\* lines 173-185
ReadHeader ==
  /\ pc = "header"
  /\ LET header == FileRead(file, 0, 16)
     IN IF HeaderInvalid(header)
        THEN /\ pc' = "raised"
             /\ error' = "ValueError"
             /\ pos' = Len(header)
             /\ UNCHANGED warnings
        ELSE /\ pc' = "records"
             /\ pos' = 16
             /\ warnings' = HeaderWarnings(BE32(Slice(header, 8, 12)),
                                           BE32(Slice(header, 12, 16)))
             /\ UNCHANGED error
  /\ UNCHANGED <<file, packets, rawts, store>>

\* lines 188-219, an iteration that reaches the end of the loop body;
\* pos is the file offset of the record header the iteration reads
ReadRecord ==
  /\ pc = "records"
  /\ LET record_header == FileRead(file, pos, 24)
     IN /\ ~HeaderTruncated(record_header)
        /\ LET incl_len == BE32(Slice(record_header, 4, 8))
               flags == Slice(record_header, 8, 12)
               ts == Slice(record_header, 16, 24)
               packet_data == FileRead(file, pos + 24, incl_len)
           IN /\ ~PayloadTruncated(packet_data, incl_len)
              /\ pos' = pos + 24 + Len(packet_data)
              /\ \E timestamp \in TimestampOf(ts) :
                   IF Len(packet_data) > 0
                   THEN LET pkt == [timestamp |-> timestamp,
                                    direction |-> Direction(flags),
                                    packet_type |-> Idx(packet_data, 0),
                                    data |-> Slice(packet_data, 1,
                                                   Len(packet_data)),
                                    rec |-> Len(packets) + 1]
                            out == process_packet(pkt)
                        IN /\ packets' = Append(packets, pkt)
                           /\ rawts' = Append(rawts, ts)
                           /\ connections' = AppendAll(connections, out.conn)
                           /\ disconnections' =
                                AppendAll(disconnections, out.disc)
                           /\ advertisements' =
                                AppendAll(advertisements, out.adv)
                           /\ gatt_operations' =
                                AppendAll(gatt_operations, out.gatt)
                           /\ error' = out.err
                           /\ pc' = IF out.err = "none" THEN "records"
                                    ELSE "raised"
                   ELSE UNCHANGED <<packets, rawts, store, error, pc>>
  /\ UNCHANGED <<file, warnings>>

\* lines 190-191 and 198-199: the two breaks that end the scan
EndScan ==
  /\ pc = "records"
  /\ LET record_header == FileRead(file, pos, 24)
     IN \/ HeaderTruncated(record_header)
        \/ /\ ~HeaderTruncated(record_header)
           /\ LET incl_len == BE32(Slice(record_header, 4, 8))
              IN PayloadTruncated(FileRead(file, pos + 24, incl_len),
                                   incl_len)
  /\ pc' = "done"
  /\ UNCHANGED <<file, pos, error, warnings, packets, rawts, store>>

Next == ReadHeader \/ ReadRecord \/ EndScan

Spec == Init /\ [][Next]_vars

-----------------------------------------------------------------------------
(* Properties                                                              *)

Collections == <<connections, disconnections, advertisements, gatt_operations>>

\* the events of a collection that come from record i of packets
EventsOf(list, i) == Cardinality({k \in DOMAIN list : list[k].rec = i})

IsEventPacket(i) ==
  packets[i].packet_type = HCI_EVENT /\ Len(packets[i].data) >= 2

\* the parameter block of event packet i: the first min(declared parameter
\* length, bytes available) bytes after the 2-byte event header
ParamBlock(i) ==
  LET d == packets[i].data
  IN SubSeq(d, 3, 2 + Min(d[2], Len(d) - 2))

IsAdvReportPacket(i) ==
  /\ IsEventPacket(i)
  /\ packets[i].data[1] = EVT_LE_META
  /\ Len(ParamBlock(i)) >= 2
  /\ ParamBlock(i)[1] = LE_ADV_REPORT

\* the record at offset p of file f is complete: its 24-byte header and
\* the payload bytes it declares are all in the file
DeclaredLen(f, p) == BE32(SubSeq(f, p + 5, p + 8))
CompleteRecordAt(f, p) ==
  Len(f) - p >= 24 /\ DeclaredLen(f, p) <= Len(f) - p - 24

IsPrefix(a, b) == Len(a) <= Len(b) /\ SubSeq(b, 1, Len(a)) = a

\* C1: decoding a record never indexes a buffer at or beyond its end and
\* never raises (no step of the record loop ends with an error), and after
\* a complete record is decoded the scan goes on to the next record.
C1_DecodeNeverFaults ==
  [][ pc = "records" =>
        /\ error' = "none"
        /\ pc' \in {"records", "done"}
        /\ CompleteRecordAt(file, pos) =>
             /\ pc' = "records"
             /\ pos' = pos + 24 + DeclaredLen(file, pos) ]_vars

\* a meta event declaring more parameter bytes than the record holds was
\* decoded, and so was a record after it
C1_Witness ==
  /\ pc = "records"
  /\ \E i \in 1..(Len(packets) - 1) :
       /\ IsEventPacket(i)
       /\ packets[i].data[1] = EVT_LE_META
       /\ packets[i].data[2] > Len(packets[i].data) - 2

\* the number of leading sub-records, of at most n, whose 9-byte prefix and
\* declared data bytes lie wholly inside params, from 0-based offset
RECURSIVE FittingReports(_, _, _)
FittingReports(params, offset, n) ==
  IF n = 0 \/ offset + 9 > Len(params) THEN 0
  ELSE LET data_len == params[offset + 9]
       IN IF offset + 9 + data_len > Len(params) THEN 0
          ELSE 1 + FittingReports(params, offset + 9 + data_len + 1, n - 1)

\* C2: an LE-advertising-report meta event declaring N reports yields
\* exactly k AdvertisementPackets, k the number of leading sub-records
\* (k <= N) whose prefix and data fit in the parameter buffer, and no error.
C2_AdvReportCount ==
  \A i \in DOMAIN packets :
    IsAdvReportPacket(i) =>
      /\ EventsOf(advertisements, i) =
           FittingReports(ParamBlock(i), 2, ParamBlock(i)[2])
      /\ EventsOf(advertisements, i) <= ParamBlock(i)[2]
      /\ error = "none"

\* a body declaring 2 reports that holds 1 complete sub-record gave 1 report
C2_Witness ==
  \E i \in DOMAIN packets :
    /\ IsAdvReportPacket(i)
    /\ ParamBlock(i)[2] = 2
    /\ Len(ParamBlock(i)) > 13
    /\ EventsOf(advertisements, i) = 1

\* C3: when the capture ends inside a record header, or a record declares
\* more payload bytes than remain, the scan ends without error and leaves
\* the packets and the four collections as the prior records made them.
C3_TruncationEndsScan ==
  [][ (pc = "records" /\ Len(file) - pos > 0 /\ ~CompleteRecordAt(file, pos))
        => /\ pc' = "done"
           /\ error' = "none"
           /\ packets' = packets
           /\ Collections' = Collections ]_vars

\* the scan ended at a record whose payload is cut short, after events
C3_Witness ==
  /\ pc = "done"
  /\ Len(file) - pos >= 24
  /\ DeclaredLen(file, pos) > Len(file) - pos - 24
  /\ Len(disconnections) > 0

OriginsOrdered(list) ==
  \A k \in 1..(Len(list) - 1) : list[k].rec <= list[k + 1].rec

\* C4: each of the four collections only grows by appending (its earlier
\* contents stay a prefix) and the originating records of its events are in
\* non-decreasing file order, whatever the timestamps are.
C4_AppendOnlyFileOrder ==
  [][ \A c \in 1..4 :
        /\ IsPrefix(Collections[c], Collections'[c])
        /\ OriginsOrdered(Collections'[c]) ]_vars

\* two disconnections in file order, the first with the later timestamp
C4_Witness ==
  /\ Len(disconnections) >= 2
  /\ disconnections[1].rec < disconnections[2].rec
  /\ disconnections[1].timestamp.us = MAX_TS
  /\ disconnections[2].timestamp.us = TS_ONE

MagicOk(f) == Len(f) >= 8 /\ SubSeq(f, 1, 8) = BTSNOOP_MAGIC

\* C6: parse raises the format error exactly when fewer than 16 header
\* bytes are available or the first 8 bytes are not the magic; with the
\* magic right it raises no format error for any version and link type, and
\* a first complete non-empty record is decoded.
C6_FormatErrorIff ==
  /\ pc # "header" =>
       ((error = "ValueError") <=> (Len(file) < 16 \/ ~MagicOk(file)))
  /\ (pc = "done" /\ CompleteRecordAt(file, 16) /\ DeclaredLen(file, 16) > 0)
       => Len(packets) >= 1

\* a header with the right magic, another version and another link type
\* was accepted with two warnings and a record after it was decoded
C6_Witness ==
  /\ error = "none"
  /\ Len(warnings) = 2
  /\ SubSeq(file, 9, 16) # SubSeq(GoodHeader, 9, 16)
  /\ Len(disconnections) > 0

\* C7: every DisconnectionEvent's handle is the little-endian 16-bit input
\* field with its top 4 bits masked off, (lo + 256*hi) mod 4096, in 0..4095;
\* the field sits at bytes 3..4 of the body of both the event and the
\* command; bytes 0x34 0x12 give 0x0234.
C7_HandleMasked ==
  \A k \in DOMAIN disconnections :
    LET d == disconnections[k]
        lo == packets[d.rec].data[4]
        hi == packets[d.rec].data[5]
    IN /\ d.handle = (lo + 256 * hi) % 4096
       /\ d.handle \in 0..4095
       /\ (lo = 52 /\ hi = 18) => d.handle = 564

\* a disconnection-complete event with field 0x1234 and a disconnect
\* command with field 0x8FFF are both in the store
C7_Witness ==
  /\ \E k \in DOMAIN disconnections :
       /\ packets[disconnections[k].rec].packet_type = HCI_EVENT
       /\ SubSeq(packets[disconnections[k].rec].data, 4, 5) = <<52, 18>>
  /\ \E k \in DOMAIN disconnections :
       /\ packets[disconnections[k].rec].packet_type = HCI_COMMAND
       /\ SubSeq(packets[disconnections[k].rec].data, 4, 5) = <<255, 143>>

\* C8: every AdvertisementPacket's rssi is the signed value of the byte
\* that follows its advertising data in the parameter buffer (0xFF gives
\* -1, 0x40 gives 64), 0 when that byte is beyond the buffer's end, and so
\* always in -128..127.
C8_RssiSigned ==
  \A k \in DOMAIN advertisements :
    LET a == advertisements[k]
        params == ParamBlock(a.rec)
        n == Len(a.data)
    IN /\ a.rssi_at - n >= 1
       /\ a.rssi_at <= Len(params)
       /\ params[a.rssi_at - n] = n
       /\ SubSeq(params, a.rssi_at - n + 1, a.rssi_at) = a.data
       /\ a.rssi \in -128..127
       /\ IF a.rssi_at < Len(params)
          THEN LET b == params[a.rssi_at + 1]
               IN /\ b <= 127 => a.rssi = b
                  /\ b > 127 => a.rssi = b - 256
                  /\ b = 255 => a.rssi = -1
                  /\ b = 64 => a.rssi = 64
          ELSE a.rssi = 0

\* reports with RSSI bytes 0xFF and 0x40, and one whose RSSI byte is cut off
C8_Witness ==
  /\ \E k \in DOMAIN advertisements : advertisements[k].rssi = -1
  /\ \E k \in DOMAIN advertisements : advertisements[k].rssi = 64
  /\ \E k \in DOMAIN advertisements :
       advertisements[k].rssi_at = Len(ParamBlock(advertisements[k].rec))

FromDisconnectionComplete(d) == packets[d.rec].packet_type = HCI_EVENT

\* C9 as claimed: a disconnection-complete event's reason code outside the
\* table renders as "Unknown(0xNN)".
C9_Original ==
  \A k \in DOMAIN disconnections :
    LET d == disconnections[k]
    IN (FromDisconnectionComplete(d) /\ d.reason \notin DOMAIN DISCONNECT_REASONS)
         => d.reason_str = "Unknown(0x" \o Hex02X(d.reason) \o ")"

\* C9 amended: for a disconnection-complete event the reason is the input
\* reason byte; outside the table its description is "Unknown (0xNN)", with
\* a space before the parenthesis and NN the two upper-case hex digits of
\* the byte; inside the table it is the table's text (0x13 gives "Remote
\* User Terminated Connection").
C9_ReasonText ==
  \A k \in DOMAIN disconnections :
    LET d == disconnections[k]
    IN FromDisconnectionComplete(d) =>
         /\ d.reason = packets[d.rec].data[6]
         /\ d.reason \in DOMAIN DISCONNECT_REASONS =>
              d.reason_str = DISCONNECT_REASONS[d.reason]
         /\ d.reason \notin DOMAIN DISCONNECT_REASONS =>
              d.reason_str = "Unknown (0x" \o Hex02X(d.reason) \o ")"
         /\ d.reason = 19 => d.reason_str = "Remote User Terminated Connection"
         /\ d.reason = 66 => d.reason_str = "Unknown (0x42)"
         /\ d.reason = 10 => d.reason_str = "Unknown (0x0A)"

\* disconnection-complete events with reasons 0x13 and 0x0A
C9_Witness ==
  \A r \in {19, 10} :
    \E k \in DOMAIN disconnections :
      /\ FromDisconnectionComplete(disconnections[k])
      /\ disconnections[k].reason = r

\* the parameter bytes a connection-request, connection-complete or
\* disconnection-complete event needs
NeededBytes == (EVT_CONNECTION_REQUEST :> 10) @@ (EVT_CONNECTION_COMPLETE :> 11)
               @@ (EVT_DISCONNECTION_COMPLETE :> 4)

\* C10: a connection-request, connection-complete or disconnection-complete
\* event emits exactly one event (a connection, a connection, a
\* disconnection) when its parameter block, the first min(declared, available)
\* bytes after the event header, has at least 10, 11 or 4 bytes, and
\* otherwise nothing, without error, also when more bytes follow the
\* declared length in the record.
C10_EventMinimumLength ==
  \A i \in DOMAIN packets :
    (IsEventPacket(i) /\ packets[i].data[1] \in DOMAIN NeededBytes) =>
      LET code == packets[i].data[1]
          one == IF Len(ParamBlock(i)) >= NeededBytes[code] THEN 1 ELSE 0
          disc == code = EVT_DISCONNECTION_COMPLETE
      IN /\ EventsOf(connections, i) = (IF disc THEN 0 ELSE one)
         /\ EventsOf(disconnections, i) = (IF disc THEN one ELSE 0)
         /\ EventsOf(advertisements, i) = 0
         /\ EventsOf(gatt_operations, i) = 0
         /\ error = "none"

\* a connection request declaring 9 parameter bytes with 10 in the record
\* gave nothing, and a disconnection complete with 4 gave one event
C10_Witness ==
  /\ \E i \in DOMAIN packets :
       /\ IsEventPacket(i)
       /\ packets[i].data[1] = EVT_CONNECTION_REQUEST
       /\ packets[i].data[2] = 9
       /\ Len(packets[i].data) >= 12
       /\ EventsOf(connections, i) = 0
  /\ \E i \in DOMAIN packets :
       /\ IsEventPacket(i)
       /\ packets[i].data[1] = EVT_DISCONNECTION_COMPLETE
       /\ EventsOf(disconnections, i) = 1

\* the thirteen recognized attribute opcodes
RecognizedOpcodes == {8, 9, 10, 11, 16, 17, 18, 19, 22, 23, 24, 25, 82}

\* the body d of an asynchronous-data record carries a recognized
\* attribute operation: at least 4 bytes, an enclosed slice (clipped to the
\* declared ACL length) of at least 4 bytes, channel id 0x0004, and a
\* channel payload (clipped to its declared length) that is non-empty and
\* starts with a recognized opcode
CarriesAttOperation(d) ==
  /\ Len(d) >= 4
  /\ LET acl == SubSeq(d, 5, 4 + Min(d[3] + 256 * d[4], Len(d) - 4))
     IN /\ Len(acl) >= 4
        /\ acl[3] + 256 * acl[4] = 4
        /\ LET payload ==
                 SubSeq(acl, 5, 4 + Min(acl[1] + 256 * acl[2], Len(acl) - 4))
           IN /\ Len(payload) >= 1
              /\ payload[1] \in RecognizedOpcodes

\* C11: an asynchronous-data record yields exactly one GattOperation when
\* its body carries a recognized attribute operation, and otherwise (short
\* data, other channel id, empty clipped payload, unrecognized opcode) no
\* event in any collection; it never yields a connection, disconnection or
\* advertisement, and raises no error.
C11_GattOperationIff ==
  /\ Cardinality(RecognizedOpcodes) = 13
  /\ \A i \in DOMAIN packets :
       packets[i].packet_type = HCI_ACL_DATA =>
         /\ EventsOf(gatt_operations, i) =
              (IF CarriesAttOperation(packets[i].data) THEN 1 ELSE 0)
         /\ EventsOf(connections, i) = 0
         /\ EventsOf(disconnections, i) = 0
         /\ EventsOf(advertisements, i) = 0
         /\ error = "none"

\* a write request on channel 4 gave one GattOperation, and a record on
\* channel 4 with an unrecognized opcode gave none
C11_Witness ==
  /\ \E i \in DOMAIN packets :
       /\ packets[i].packet_type = HCI_ACL_DATA
       /\ Len(packets[i].data) >= 9
       /\ SubSeq(packets[i].data, 7, 9) = <<4, 0, ATT_WRITE_REQ>>
       /\ EventsOf(gatt_operations, i) = 1
  /\ \E i \in DOMAIN packets :
       /\ packets[i].packet_type = HCI_ACL_DATA
       /\ Len(packets[i].data) >= 9
       /\ SubSeq(packets[i].data, 3, 9) = <<7, 0, 3, 0, 4, 0, 1>>
       /\ EventsOf(gatt_operations, i) = 0

====
